---- MODULE Spec2Model ----
(***************************************************************************)
(* Model of couch-rs src/database.rs: the Mango query engine (find), the   *)
(* bookmark cursor (find_batched / get_all_batched) and the document write *)
(* protocol (get / save / upsert).                                         *)
(*                                                                         *)
(* Rust's Option<T> is modelled as a sequence of length <= 1: None is <<>> *)
(* and Some(v) is <<v>>.  A document id is a sequence of characters, so    *)
(* that starts_with can be computed.                                       *)
(***************************************************************************)
EXTENDS Integers, Sequences, FiniteSets, TLC

VARIABLES
    \* ---- one call of find (pure function of the server's response)
    fResp,        \* the response the transport hands to find
    fOut,         \* find's result, NotCalled before the call
    \* ---- one run of find_batched
    args,         \* [batch_size, max_results, query]: the caller's arguments
    srv,          \* the server: [mode, n]
    pc,           \* position of the find_batched task
    bookmark,     \* local `bookmark` (line 296)
    limit,        \* local `limit` (line 297)
    results,      \* local `results` (line 299)
    query,        \* local `query` after line 300
    all_docs,     \* result of the latest find (line 305)
    held,         \* the bookmark held when the latest page was fetched
    requests,     \* history: the queries submitted to find
    sent,         \* history: the batches handed to tx.send that completed
    tx,           \* content of the bounded channel
    rxOpen,       \* the receiving end still exists
    received,     \* batches the consumer has taken from the channel
    ret,          \* find_batched's return value, NotCalled while running
    \* ---- the write protocol: two callers of save / upsert / create / remove
    \*      on one document id
    store,        \* the server's document: [rev, live, f]
    store0,       \* history: the server's document when the callers started
    wop,          \* the operation each caller runs
    wans,         \* history: the answer to each caller's write request
    wpc,          \* position of each caller's upsert
    wdoc,         \* each caller's argument `doc`
    wgot,         \* what each caller's get returned
    wcur,         \* the document each caller hands to save
    wlog,         \* history: the requests each caller issued
    wret          \* each caller's return value

findVars  == <<fResp, fOut>>
batchVars == <<args, srv, pc, bookmark, limit, results, query, all_docs, held,
               requests, sent, tx, rxOpen, received, ret>>
writeVars == <<store, store0, wop, wans, wpc, wdoc, wgot, wcur, wlog, wret>>
vars      == <<findVars, batchVars, writeVars>>

(***************************************************************************)
(* Bounds of the model                                                     *)
(***************************************************************************)
MaxDocs  == 3     \* longest docs array in a response handed to find alone
MaxN     == 3     \* most documents the paging server holds (small runs)
MaxPages == 4     \* most find requests of one find_batched run
ChanCap  == 1     \* capacity of the mpsc channel

(***************************************************************************)
(* Option and result values                                                *)
(***************************************************************************)
None == <<>>
Some(v) == <<v>>
is_some(o) == o # None
unwrap_or_default(o) == IF o = None THEN "" ELSE o[1]

NotCalled == [kind |-> "NotCalled"]
Ok(v)     == [kind |-> "Ok", val |-> v]
Err(e)    == [kind |-> "Err", err |-> e]
Panic     == [kind |-> "Panic"]

CouchError(message, status) == [message |-> message, status |-> status]

Min(a, b) == IF a < b THEN a ELSE b

RECURSIVE SumRows(_)
SumRows(s) == IF s = <<>> THEN 0 ELSE s[1].total_rows + SumRows(Tail(s))

(***************************************************************************)
(* Documents and collections (types of document.rs, used by database.rs)   *)
(***************************************************************************)
Value(id) == [_id |-> id, _rev |-> Some("1-x")]

Document_new(val) == [_id |-> val._id, _rev |-> unwrap_or_default(val._rev), doc |-> val]

new_from_documents(documents, bm) ==
    [rows |-> documents, total_rows |-> Len(documents), bookmark |-> bm]

DocumentCollection_default == [rows |-> <<>>, total_rows |-> 0, bookmark |-> None]

(***************************************************************************)
(* find, lines 459-490                                                     *)
(***************************************************************************)
\* the filter closure of lines 468-472: keep d unless its id starts with '_'
KeepsAll(d) == TRUE
Keeps(d) == ~(Len(d._id) > 0 /\ d._id[1] = "_")

\* lines 476-482
NormalizeKeepsNil(returned) ==
    IF unwrap_or_default(returned) # ""
    THEN Some(unwrap_or_default(returned)) ELSE None
NormalizeBookmark(returned) ==
    LET returned_bookmark == unwrap_or_default(returned)
    IN  IF returned_bookmark # "nil" /\ returned_bookmark # ""
        THEN Some(returned_bookmark) ELSE None

\* lines 465-489: the three branches on the parsed payload
ParsedStatusFromBody(status, data) ==
    IF is_some(data.docs)
    THEN Ok(new_from_documents(
             [i \in 1..Len(SelectSeq(data.docs[1], Keeps)) |->
                 Document_new(SelectSeq(data.docs[1], Keeps)[i])],
             NormalizeBookmark(data.bookmark)))
    ELSE IF is_some(data.error) THEN Err(CouchError(data.error[1], 500))
    ELSE Ok(DocumentCollection_default)
ParsedDefaultKeepsBookmark(status, data) ==
    IF is_some(data.docs)
    THEN Ok(new_from_documents(
             [i \in 1..Len(SelectSeq(data.docs[1], Keeps)) |->
                 Document_new(SelectSeq(data.docs[1], Keeps)[i])],
             NormalizeBookmark(data.bookmark)))
    ELSE IF is_some(data.error) THEN Err(CouchError(data.error[1], status))
    ELSE Ok(new_from_documents(<<>>, NormalizeBookmark(data.bookmark)))
\* lines 465-489 as written
Parsed(status, data) ==
    IF is_some(data.docs)
    THEN LET kept == SelectSeq(data.docs[1], Keeps)
             documents == [i \in 1..Len(kept) |-> Document_new(kept[i])]
         IN  Ok(new_from_documents(documents, NormalizeBookmark(data.bookmark)))
    ELSE IF is_some(data.error) THEN Err(CouchError(data.error[1], status))
    ELSE Ok(DocumentCollection_default)

\* A response: fail is Some(e) when the request could not be built or sent
\* (the `?` of line 461), parsed is FALSE when the body is no FindResult
\* (the unwrap of line 463 panics).
find(resp) ==
    IF is_some(resp.fail) THEN Err(resp.fail[1])
    ELSE IF ~resp.parsed THEN Panic
    ELSE Parsed(resp.status, resp.data)

(***************************************************************************)
(* Responses                                                               *)
(***************************************************************************)
Ids == {<<"a">>, <<"b">>, <<"_", "d">>, <<"_">>, <<"a", "_">>}
Bookmarks == {None, Some(""), Some("nil"), Some("b1"), Some("b2")}
Errors == {None, Some("bad_request")}
Statuses == {200, 400, 500}
TransportErrors == {CouchError("connection refused", 501)}
DecodeErrors == {CouchError("error decoding response body", 501)}

RECURSIVE SeqsUpTo(_, _)
SeqsUpTo(S, n) ==
    IF n = 0 THEN {<<>>}
    ELSE SeqsUpTo(S, n - 1) \cup
         {Append(s, x) : s \in {t \in SeqsUpTo(S, n - 1) : Len(t) = n - 1}, x \in S}

FindResults(docSeqs) ==
    [docs : {None} \cup {Some(s) : s \in docSeqs}, bookmark : Bookmarks, error : Errors]

ParsedResponse(status, data) ==
    [fail |-> None, parsed |-> TRUE, status |-> status, data |-> data]
GarbageResponse(status) ==
    [fail |-> None, parsed |-> FALSE, status |-> status,
     data |-> [docs |-> None, bookmark |-> None, error |-> None]]
FailedResponse(e) ==
    [fail |-> Some(e), parsed |-> FALSE, status |-> 0,
     data |-> [docs |-> None, bookmark |-> None, error |-> None]]

FindResponses ==
    {ParsedResponse(st, d) :
        st \in Statuses,
        d \in FindResults({[i \in 1..Len(s) |-> Value(s[i])] : s \in SeqsUpTo(Ids, MaxDocs)})}
    \cup {GarbageResponse(200)}
    \cup {FailedResponse(e) : e \in TransportErrors}

(***************************************************************************)
(* SpecFind: find applied once to every response of FindResponses          *)
(***************************************************************************)
BatchIdle ==
    /\ args = [batch_size |-> 0, max_results |-> 0,
               query |-> [limit |-> None, bookmark |-> None]]
    /\ srv = [mode |-> "none", n |-> 0]
    /\ pc = "idle"
    /\ bookmark = None /\ limit = 0 /\ results = 0
    /\ query = [limit |-> None, bookmark |-> None]
    /\ all_docs = NotCalled /\ held = None
    /\ requests = <<>> /\ sent = <<>> /\ tx = <<>> /\ rxOpen = TRUE
    /\ received = <<>> /\ ret = NotCalled

Writers == {"w1", "w2"}
Keys == {"x", "y"}
NoFields == [k \in Keys |-> None]

WriteIdle ==
    /\ store = [rev |-> 0, live |-> FALSE, f |-> NoFields]
    /\ store0 = store
    /\ wop = [w \in Writers |-> "none"]
    /\ wans = [w \in Writers |-> NotCalled]
    /\ wpc = [w \in Writers |-> "idle"]
    /\ wdoc = [w \in Writers |-> NotCalled]
    /\ wgot = [w \in Writers |-> NotCalled]
    /\ wcur = [w \in Writers |-> NotCalled]
    /\ wlog = [w \in Writers |-> <<>>]
    /\ wret = [w \in Writers |-> NotCalled]

FindIdle == fResp = GarbageResponse(200) /\ fOut = NotCalled

InitFind == fResp \in FindResponses /\ fOut = NotCalled /\ BatchIdle /\ WriteIdle

FindCall ==
    /\ fOut = NotCalled
    /\ fOut' = find(fResp)
    /\ UNCHANGED <<fResp, batchVars, writeVars>>

NextFind == FindCall

SpecFind == InitFind /\ [][NextFind]_vars

(***************************************************************************)
(* find_batched, lines 289-336 (get_all_batched, lines 272-280, is the     *)
(* same run with query = FindQuery::find_all())                            *)
(***************************************************************************)
find_all == [limit |-> None, bookmark |-> None]

\* line 297
DefaultBatchSize == 1000
EffectiveLimitWithoutDefault(batch_size) == batch_size
EffectiveLimit(batch_size) == IF batch_size > 0 THEN batch_size ELSE DefaultBatchSize

\* line 305: the query handed to find.  The loop builds segment_query with
\* the current bookmark (lines 303-304) and then passes &query.
SubmittedQuery(q, segment_query) == q

\* lines 306-320 and 331-335: what the loop does with the result of find
\* up to the next await; bm and res are the locals bookmark and results.
AfterFindSendsStagnant(r, bm, res) ==
    IF r.kind = "Err" THEN [pc |-> "done", bookmark |-> bm, results |-> res, ret |-> Err(r.err)]
    ELSE IF r.kind = "Panic" THEN [pc |-> "panicked", bookmark |-> bm, results |-> res, ret |-> NotCalled]
    ELSE IF r.val.total_rows = 0 THEN [pc |-> "done", bookmark |-> bm, results |-> res, ret |-> Ok(res)]
    ELSE [pc |-> "send", bookmark |-> r.val.bookmark,
          results |-> res + r.val.total_rows, ret |-> NotCalled]
AfterFindSwallowsError(r, bm, res) ==
    IF r.kind = "Err" THEN [pc |-> "done", bookmark |-> bm, results |-> res, ret |-> Ok(res)]
    ELSE IF r.kind = "Panic" THEN [pc |-> "panicked", bookmark |-> bm, results |-> res, ret |-> NotCalled]
    ELSE IF r.val.total_rows = 0 THEN [pc |-> "done", bookmark |-> bm, results |-> res, ret |-> Ok(res)]
    ELSE IF is_some(r.val.bookmark) /\ r.val.bookmark # bm
    THEN [pc |-> "send", bookmark |-> Some(unwrap_or_default(r.val.bookmark)),
          results |-> res + r.val.total_rows, ret |-> NotCalled]
    ELSE [pc |-> "done", bookmark |-> bm, results |-> res, ret |-> Ok(res)]
AfterFindCountsPages(r, bm, res) ==
    IF r.kind = "Err" THEN [pc |-> "done", bookmark |-> bm, results |-> res, ret |-> Err(r.err)]
    ELSE IF r.kind = "Panic" THEN [pc |-> "panicked", bookmark |-> bm, results |-> res, ret |-> NotCalled]
    ELSE IF r.val.total_rows = 0 THEN [pc |-> "done", bookmark |-> bm, results |-> res, ret |-> Ok(res)]
    ELSE IF is_some(r.val.bookmark) /\ r.val.bookmark # bm
    THEN [pc |-> "send", bookmark |-> Some(unwrap_or_default(r.val.bookmark)),
          results |-> res + 1, ret |-> NotCalled]
    ELSE [pc |-> "done", bookmark |-> bm, results |-> res, ret |-> Ok(res)]
AfterFindCountsNothing(r, bm, res) ==
    IF r.kind = "Err" THEN [pc |-> "done", bookmark |-> bm, results |-> res, ret |-> Err(r.err)]
    ELSE IF r.kind = "Panic" THEN [pc |-> "panicked", bookmark |-> bm, results |-> res, ret |-> NotCalled]
    ELSE IF r.val.total_rows = 0 THEN [pc |-> "done", bookmark |-> bm, results |-> res, ret |-> Ok(res)]
    ELSE IF is_some(r.val.bookmark) /\ r.val.bookmark # bm
    THEN [pc |-> "send", bookmark |-> Some(unwrap_or_default(r.val.bookmark)),
          results |-> res, ret |-> NotCalled]
    ELSE [pc |-> "done", bookmark |-> bm, results |-> res, ret |-> Ok(res)]
AfterFindSendsEmpty(r, bm, res) ==
    IF r.kind = "Err" THEN [pc |-> "done", bookmark |-> bm, results |-> res, ret |-> Err(r.err)]
    ELSE IF r.kind = "Panic" THEN [pc |-> "panicked", bookmark |-> bm, results |-> res, ret |-> NotCalled]
    ELSE IF is_some(r.val.bookmark) /\ r.val.bookmark # bm
    THEN [pc |-> "send", bookmark |-> Some(unwrap_or_default(r.val.bookmark)),
          results |-> res + r.val.total_rows, ret |-> NotCalled]
    ELSE [pc |-> "done", bookmark |-> bm, results |-> res, ret |-> Ok(res)]
AfterFind(r, bm, res) ==
    IF r.kind = "Err"
    THEN \* line 307: break Some(err); lines 331-332
         [pc |-> "done", bookmark |-> bm, results |-> res, ret |-> Err(r.err)]
    ELSE IF r.kind = "Panic"
    THEN [pc |-> "panicked", bookmark |-> bm, results |-> res, ret |-> NotCalled]
    ELSE IF r.val.total_rows = 0
    THEN \* lines 310-313
         [pc |-> "done", bookmark |-> bm, results |-> res, ret |-> Ok(res)]
    ELSE IF is_some(r.val.bookmark) /\ r.val.bookmark # bm
    THEN \* lines 315-316 and 322, up to the send of line 324
         [pc |-> "send", bookmark |-> Some(unwrap_or_default(r.val.bookmark)),
          results |-> res + r.val.total_rows, ret |-> NotCalled]
    ELSE \* lines 317-320
         [pc |-> "done", bookmark |-> bm, results |-> res, ret |-> Ok(res)]

\* lines 326-328
ReachedMax(max_results, res) == max_results > 0 /\ res >= max_results

\* line 324: tx.send(all_docs).await completes when the bounded channel has
\* room for the batch; until then the task is suspended in the await
SendNeverWaits(queue) == TRUE
SendCompletes(queue) == Len(queue) < ChanCap

\* line 324: tx.send(all_docs).await is an Err when the receiver is gone, and
\* unwrap() of an Err panics: the task ends without a return value
SendErrorIgnored(max_results, res) ==
    IF ReachedMax(max_results, res)
    THEN [pc |-> "done", ret |-> Ok(res)]
    ELSE [pc |-> "fetch", ret |-> NotCalled]
AfterSendError(max_results, res) == [pc |-> "panicked", ret |-> NotCalled]

(***************************************************************************)
(* The server seen by find_batched                                         *)
(***************************************************************************)
\* the paging server: n matching documents d1..dn, none reserved; the
\* bookmark of a page names the offset behind its last document
DocId(k) == <<"d", ToString(k)>>
BookmarkOf(off) == "o" \o ToString(off)
OffsetOf(bm, n) == IF bm = None THEN 0 ELSE CHOOSE k \in 0..n : BookmarkOf(k) = bm[1]

PagedResponse(q, n) ==
    LET off  == OffsetOf(q.bookmark, n)
        len  == Min(unwrap_or_default(q.limit), n - off)
        docs == [i \in 1..len |-> Value(DocId(off + i))]
    IN  ParsedResponse(200, [docs |-> Some(docs),
                             bookmark |-> Some(BookmarkOf(off + len)),
                             error |-> None])

\* the arbitrary server: any of these answers, at most `limit` documents each
BatchDocs == {<<>>, <<Value(<<"a">>)>>, <<Value(<<"a">>), Value(<<"b">>)>>,
              <<Value(<<"_", "d">>)>>, <<Value(<<"a">>), Value(<<"_", "d">>)>>}
BatchBookmarks == {None, Some("nil"), Some("b1"), Some("b2")}

BatchResponses ==
    {ParsedResponse(200, [docs |-> Some(d), bookmark |-> b, error |-> None]) :
        d \in BatchDocs, b \in BatchBookmarks}
    \cup {ParsedResponse(200, [docs |-> None, bookmark |-> Some("b1"), error |-> None]),
          ParsedResponse(400, [docs |-> None, bookmark |-> None, error |-> Some("bad_request")]),
          ParsedResponse(200, [docs |-> None, bookmark |-> None, error |-> Some("timeout")]),
          GarbageResponse(200)}
    \cup {FailedResponse(e) : e \in TransportErrors}

ServerResponses(q) ==
    IF srv.mode = "paged" THEN {PagedResponse(q, srv.n)}
    ELSE {r \in BatchResponses :
            r.parsed /\ is_some(r.data.docs) => Len(r.data.docs[1]) <= unwrap_or_default(q.limit)}

(***************************************************************************)
(* Spec: one run of find_batched with its consumer                         *)
(***************************************************************************)
\* the runs against the paging server: (batch_size, max_results, n)
PagedRuns ==
    ({0, 1, 2} \X (0..MaxN) \X (0..MaxN)) \cup {<<10, 15, 30>>, <<10, 0, 30>>}

Init ==
    /\ FindIdle
    /\ WriteIdle
    /\ \/ \E run \in PagedRuns :
             /\ args = [batch_size |-> run[1], max_results |-> run[2], query |-> find_all]
             /\ srv = [mode |-> "paged", n |-> run[3]]
       \/ /\ args \in [batch_size : {0, 1, 2}, max_results : 0..3,
                       query : [limit : {None, Some(5)}, bookmark : {None, Some("b1")}]]
          /\ srv = [mode |-> "any", n |-> 0]
    /\ pc = "start"
    /\ bookmark = None /\ limit = 0 /\ results = 0
    /\ query = args.query
    /\ all_docs = NotCalled /\ held = None
    /\ requests = <<>> /\ sent = <<>> /\ tx = <<>> /\ rxOpen = TRUE
    /\ received = <<>> /\ ret = NotCalled

\* lines 296-300
FindBatchedStart ==
    /\ pc = "start"
    /\ bookmark' = None
    /\ limit' = EffectiveLimit(args.batch_size)
    /\ results' = 0
    /\ query' = [query EXCEPT !.limit = Some(EffectiveLimit(args.batch_size))]
    /\ pc' = "fetch"
    /\ UNCHANGED <<findVars, writeVars, args, srv, all_docs, held, requests, sent, tx, rxOpen,
                   received, ret>>

\* lines 303-322 (and 331-335 when the loop breaks): one page
FindBatchedFetch ==
    /\ pc = "fetch"
    /\ Len(requests) < MaxPages
    /\ LET segment_query == [query EXCEPT !.bookmark = bookmark]
           submitted == SubmittedQuery(query, segment_query)
       IN  \E resp \in ServerResponses(submitted) :
             LET r == find(resp)
                 next == AfterFind(r, bookmark, results)
             IN  /\ requests' = Append(requests, submitted)
                 /\ held' = bookmark
                 /\ all_docs' = r
                 /\ pc' = next.pc
                 /\ bookmark' = next.bookmark
                 /\ results' = next.results
                 /\ ret' = next.ret
    /\ UNCHANGED <<findVars, writeVars, args, srv, limit, query, sent, tx, rxOpen, received>>

\* line 324 and lines 326-328: the send completes when the channel has room
FindBatchedSend ==
    /\ pc = "send"
    /\ rxOpen
    /\ SendCompletes(tx)
    /\ tx' = Append(tx, all_docs.val)
    /\ sent' = Append(sent, all_docs.val)
    /\ IF ReachedMax(args.max_results, results)
       THEN pc' = "done" /\ ret' = Ok(results)
       ELSE pc' = "fetch" /\ ret' = ret
    /\ UNCHANGED <<findVars, writeVars, args, srv, bookmark, limit, results, query, all_docs, held,
                   requests, rxOpen, received>>

\* line 324: send on a channel whose receiver is gone returns Err; unwrap panics
FindBatchedSendClosed ==
    /\ pc = "send"
    /\ ~rxOpen
    /\ pc' = AfterSendError(args.max_results, results).pc
    /\ ret' = AfterSendError(args.max_results, results).ret
    /\ UNCHANGED <<findVars, writeVars, args, srv, bookmark, limit, results, query, all_docs, held,
                   requests, sent, tx, rxOpen, received>>

\* the consumer: rx.recv()
Recv ==
    /\ rxOpen
    /\ tx # <<>>
    /\ received' = Append(received, Head(tx))
    /\ tx' = Tail(tx)
    /\ UNCHANGED <<findVars, writeVars, args, srv, pc, bookmark, limit, results, query, all_docs,
                   held, requests, sent, rxOpen, ret>>

\* the consumer drops the receiver; what the channel still buffers is lost
RxDrop ==
    /\ rxOpen
    /\ rxOpen' = FALSE
    /\ tx' = <<>>
    /\ UNCHANGED <<findVars, writeVars, args, srv, pc, bookmark, limit, results, query, all_docs,
                   held, requests, sent, received, ret>>

Next ==
    \/ FindBatchedStart
    \/ FindBatchedFetch
    \/ FindBatchedSend
    \/ FindBatchedSendClosed
    \/ Recv
    \/ RxDrop

Spec == Init /\ [][Next]_vars

\* The same run when the task is polled whenever it can proceed, the server
\* answers every request and the consumer takes every batch it is offered.
SpecLive ==
    /\ Init
    /\ [][Next]_vars
    /\ WF_vars(FindBatchedStart)
    /\ WF_vars(FindBatchedFetch)
    /\ WF_vars(FindBatchedSend)
    /\ WF_vars(FindBatchedSendClosed)
    /\ WF_vars(Recv)

(***************************************************************************)
(* The write protocol: get (lines 149-157), save (lines 543-568) and       *)
(* upsert (lines 644-663) on the document with id "a"                      *)
(***************************************************************************)
TheId == <<"a">>

\* a JSON document of the write protocol: _rev is None when the field is absent
WriteValue(rev, f) == [_id |-> TheId, _rev |-> rev, f |-> f]

\* Document::get_data: the JSON value the Document wraps
get_data(doc) == doc.doc

\* Document::merge: patch's fields laid over base's; base keeps its id, and
\* its revision unless patch supplies one
merge(base, patch) ==
    Document_new([_id  |-> base.doc._id,
                  _rev |-> IF is_some(patch._rev) THEN patch._rev ELSE base.doc._rev,
                  f    |-> [k \in Keys |->
                              IF is_some(patch.f[k]) THEN patch.f[k] ELSE base.doc.f[k]]])

\* CouchError::is_not_found
is_not_found(err) == err.status = 404

\* the CouchError the `?` operator makes of a reqwest status error
StatusError(status) == CouchError("HTTP status error", status)

RevOf(n) == Some(ToString(n))

\* ---- the server
\* GET /db/a
GetResponse ==
    IF store.live
    THEN [fail |-> None, status |-> 200, body |-> Some(WriteValue(RevOf(store.rev), store.f))]
    ELSE [fail |-> None, status |-> 404, body |-> None]

\* answers to a GET that yield no document: the request cannot be sent, the
\* body cannot be decoded, the server refuses the request, the server breaks
GetFailures ==
    {[fail |-> Some(e), status |-> 0, body |-> None] : e \in TransportErrors \cup DecodeErrors}
    \cup {[fail |-> None, status |-> st, body |-> None] : st \in {401, 500}}

\* PUT /db/a: compare-and-swap on the revision
PutAccepted(body) ==
    IF store.live THEN body._rev = RevOf(store.rev) ELSE body._rev = None
PutResponse(body) ==
    IF PutAccepted(body)
    THEN [fail |-> None, status |-> 201,
          data |-> [ok |-> Some(TRUE), id |-> Some(TheId), rev |-> RevOf(store.rev + 1),
                    error |-> None]]
    ELSE [fail |-> None, status |-> 409,
          data |-> [ok |-> None, id |-> None, rev |-> None, error |-> Some("conflict")]]
StoreAfterPut(body) ==
    IF PutAccepted(body)
    THEN [rev |-> store.rev + 1, live |-> TRUE, f |-> body.f]
    ELSE store
\* answers of a server that refuses the write whatever the revision is
WriteRejections ==
    {[fail |-> None, status |-> 403,
      data |-> [ok |-> Some(FALSE), id |-> None, rev |-> None, error |-> Some("forbidden")]],
     [fail |-> None, status |-> 500,
      data |-> [ok |-> None, id |-> None, rev |-> None, error |-> None]]}
\* the PUT cannot be sent (the `?` of lines 549-551)
PutFailures ==
    {[fail |-> Some(e), status |-> 0,
      data |-> [ok |-> None, id |-> None, rev |-> None, error |-> None]] :
        e \in TransportErrors}
\* the PUT was served but its answer cannot be decoded (the `?` of line 554)
PutUndecoded ==
    {[fail |-> Some(e), status |-> 0,
      data |-> [ok |-> None, id |-> None, rev |-> None, error |-> None]] :
        e \in DecodeErrors}

\* POST /db: the server gives a document without id a new id of its own
GeneratedId == <<"g">>
PostAccepted(body) == body._id = <<>> \/ PutAccepted(body)
PostAnswer(body) ==
    IF PostAccepted(body)
    THEN [fail |-> None, status |-> 201,
          data |-> [ok |-> Some(TRUE),
                    id |-> Some(IF body._id = <<>> THEN GeneratedId ELSE body._id),
                    rev |-> IF body._id = <<>> THEN RevOf(1) ELSE RevOf(store.rev + 1),
                    error |-> None]]
    ELSE [fail |-> None, status |-> 409,
          data |-> [ok |-> None, id |-> None, rev |-> None, error |-> Some("conflict")]]
\* the answers a POST can get: the full one, and an accepted one that lacks
\* the id, the revision or both
PostResponses(body) ==
    {PostAnswer(body)} \cup
    IF PostAccepted(body)
    THEN {[PostAnswer(body) EXCEPT !.data.id = None],
          [PostAnswer(body) EXCEPT !.data.rev = None],
          [PostAnswer(body) EXCEPT !.data.id = None, !.data.rev = None]}
    ELSE {}
StoreAfterPost(body) == IF body._id = <<>> THEN store ELSE StoreAfterPut(body)

\* DELETE /db/a?rev=..: the status, and the document afterwards
DeleteAccepted(rev) == store.live /\ Some(rev) = RevOf(store.rev)
DeleteStatus(rev) ==
    IF ~store.live THEN 404 ELSE IF DeleteAccepted(rev) THEN 200 ELSE 409
StoreAfterDelete(rev) ==
    IF DeleteAccepted(rev) THEN [store EXCEPT !.rev = @ + 1, !.live = FALSE] ELSE store
\* statuses of a DELETE that does not reach the document
OtherDeleteStatuses == {202, 304, 500}

\* ---- the client
\* get, lines 149-157: `?` on the send, error_for_status, `?` on the body
get(resp) ==
    IF is_some(resp.fail) THEN Err(resp.fail[1])
    ELSE IF resp.status >= 400 THEN Err(StatusError(resp.status))
    ELSE Ok(Document_new(resp.body[1]))

\* save, lines 553-567: what save returns for doc and the server's answer
SaveKeepsRevision(doc, resp) ==
    IF is_some(resp.fail) THEN Err(resp.fail[1])
    ELSE IF resp.data.ok = Some(TRUE) THEN Ok(doc)
    ELSE Err(CouchError(IF is_some(resp.data.error) THEN resp.data.error[1]
                        ELSE "unspecified error", resp.status))
SaveFixedStatus(doc, resp) ==
    IF is_some(resp.fail) THEN Err(resp.fail[1])
    ELSE IF resp.data.ok = Some(TRUE)
    THEN Ok(Document_new([get_data(doc) EXCEPT !._rev = resp.data.rev]))
    ELSE Err(CouchError(IF is_some(resp.data.error) THEN resp.data.error[1]
                        ELSE "unspecified error", 500))
SaveIgnoresOk(doc, resp) ==
    IF is_some(resp.fail) THEN Err(resp.fail[1])
    ELSE Ok(Document_new([get_data(doc) EXCEPT !._rev = resp.data.rev]))
SaveOkOnConflict(doc, resp) ==
    IF is_some(resp.fail) THEN Err(resp.fail[1])
    ELSE IF resp.data.ok = Some(TRUE) \/ resp.status = 409
    THEN Ok(Document_new([get_data(doc) EXCEPT !._rev = resp.data.rev]))
    ELSE Err(CouchError(IF is_some(resp.data.error) THEN resp.data.error[1]
                        ELSE "unspecified error", resp.status))
save(doc, resp) ==
    IF is_some(resp.fail) THEN Err(resp.fail[1])
    ELSE IF resp.data.ok = Some(TRUE)
    THEN Ok(Document_new([get_data(doc) EXCEPT !._rev = resp.data.rev]))
    ELSE Err(CouchError(IF is_some(resp.data.error) THEN resp.data.error[1]
                        ELSE "unspecified error", resp.status))

\* create, lines 578-603: what create returns for raw_doc and the answer
CreateTrustsAnswer(raw_doc, resp) ==
    IF is_some(resp.fail) THEN Err(resp.fail[1])
    ELSE IF resp.data.ok = Some(TRUE)
    THEN Ok(Document_new([raw_doc EXCEPT !._id = unwrap_or_default(resp.data.id),
                                         !._rev = resp.data.rev]))
    ELSE Err(CouchError(IF is_some(resp.data.error) THEN resp.data.error[1]
                        ELSE "unspecified error", resp.status))
create(raw_doc, resp) ==
    IF is_some(resp.fail) THEN Err(resp.fail[1])
    ELSE IF resp.data.ok = Some(TRUE)
    THEN IF resp.data.id = None THEN Err(CouchError("invalid id", resp.status))
         ELSE IF resp.data.rev = None THEN Err(CouchError("invalid rev", resp.status))
         ELSE Ok(Document_new([raw_doc EXCEPT !._id = resp.data.id[1],
                                              !._rev = Some(resp.data.rev[1])]))
    ELSE Err(CouchError(IF is_some(resp.data.error) THEN resp.data.error[1]
                        ELSE "unspecified error", resp.status))

\* is_ok, lines 84-95: request is [built, fail, status]; built is FALSE when
\* the RequestBuilder is an Err, fail is Some when send() fails
IsOkLikeAccepted(request) ==
    IF ~request.built THEN FALSE
    ELSE IF is_some(request.fail) THEN FALSE
    ELSE request.status \in {200, 202, 304}
is_ok(request) ==
    IF ~request.built THEN FALSE
    ELSE IF is_some(request.fail) THEN FALSE
    ELSE request.status \in {200, 304}

\* a bool returned by remove
Bool(b) == [kind |-> "Bool", val |-> b]

\* upsert, lines 647-661: what follows the get; doc is the argument, g the
\* result of get
UpsertBranchNoMerge(g, doc) ==
    IF g.kind = "Ok" THEN [pc |-> "save", cur |-> doc, ret |-> NotCalled]
    ELSE IF is_not_found(g.err) THEN [pc |-> "save", cur |-> doc, ret |-> NotCalled]
    ELSE [pc |-> "done", cur |-> NotCalled, ret |-> Err(g.err)]
UpsertBranchSavesOnAnyError(g, doc) ==
    IF g.kind = "Ok"
    THEN [pc |-> "save", cur |-> merge(g.val, get_data(doc)), ret |-> NotCalled]
    ELSE [pc |-> "save", cur |-> doc, ret |-> NotCalled]
UpsertBranch(g, doc) ==
    IF g.kind = "Ok"
    THEN \* lines 648-650
         [pc |-> "save", cur |-> merge(g.val, get_data(doc)), ret |-> NotCalled]
    ELSE IF is_not_found(g.err)
    THEN \* lines 654-656
         [pc |-> "save", cur |-> doc, ret |-> NotCalled]
    ELSE \* line 659
         [pc |-> "done", cur |-> NotCalled, ret |-> Err(g.err)]

GetRequest(id) == [method |-> "GET", id |-> id, body |-> NotCalled]
PutRequest(id, body) == [method |-> "PUT", id |-> id, body |-> body]
PostRequest(body) == [method |-> "POST", id |-> <<>>, body |-> body]
DeleteRequest(id, rev) == [method |-> "DELETE", id |-> id, body |-> [rev |-> rev]]

(***************************************************************************)
(* SpecWrite: two callers of the write protocol on the same id             *)
(***************************************************************************)
\* the operations the two callers run
OperationPairs ==
    {ops \in [Writers -> {"upsert", "save", "create", "remove"}] :
        /\ ops["w2"] \in {"upsert", "save"}
        /\ ops["w1"] \in {"create", "remove"} => ops["w2"] = "save"}
StoredFields == [Keys -> {None, Some("s")}]
IncomingFields(w) == [Keys -> {None, Some(w)}]
IncomingRevs == {None, RevOf(1), RevOf(2)}
\* a revision is a token the server issued: a caller holds none, or one of
\* the revisions the document has had
IssuedRevs(st) == {None} \cup {RevOf(k) : k \in 1..st.rev}

InitWrite ==
    /\ FindIdle
    /\ BatchIdle
    /\ store \in {[rev |-> 0, live |-> FALSE, f |-> NoFields]}
                 \cup [rev : {1, 2}, live : {TRUE}, f : StoredFields]
    /\ store0 = store
    /\ wop \in OperationPairs
    /\ wans = [w \in Writers |-> NotCalled]
    /\ wpc = [w \in Writers |-> "start"]
    /\ wdoc \in [Writers -> {Document_new([WriteValue(r, f) EXCEPT !._id = id]) :
                                id \in {TheId, <<>>},
                                r \in IncomingRevs,
                                f \in UNION {IncomingFields(w) : w \in Writers}}]
    /\ \A w \in Writers :
          /\ wdoc[w].doc.f \in IncomingFields(w)
          /\ wdoc[w].doc._rev \in IssuedRevs(store)
          /\ wdoc[w]._id = <<>> => wop[w] = "create" /\ wdoc[w].doc._rev = None
    /\ wgot = [w \in Writers |-> NotCalled]
    /\ wcur = [w \in Writers |-> NotCalled]
    /\ wlog = [w \in Writers |-> <<>>]
    /\ wret = [w \in Writers |-> NotCalled]

\* lines 645-661: the get and the branch on its result
UpsertGet(w) ==
    /\ wop[w] = "upsert"
    /\ wpc[w] = "start"
    /\ \E resp \in {GetResponse} \cup GetFailures :
         LET g == get(resp)
             next == UpsertBranch(g, wdoc[w])
         IN  /\ wlog' = [wlog EXCEPT ![w] = Append(@, GetRequest(wdoc[w]._id))]
             /\ wgot' = [wgot EXCEPT ![w] = g]
             /\ wpc' = [wpc EXCEPT ![w] = next.pc]
             /\ wcur' = [wcur EXCEPT ![w] = next.cur]
             /\ wret' = [wret EXCEPT ![w] = next.ret]
    /\ UNCHANGED <<findVars, batchVars, store, store0, wop, wans, wdoc>>

\* save, lines 543-568, called by w with doc: one PUT and what is made of
\* its answer
SavePut(w, doc) ==
    LET body == get_data(doc)
    IN  /\ wlog' = [wlog EXCEPT ![w] = Append(@, PutRequest(doc._id, body))]
        /\ \/ /\ store' = StoreAfterPut(body)
              /\ wans' = [wans EXCEPT ![w] = PutResponse(body)]
           \/ \E resp \in PutFailures \cup WriteRejections :
              /\ store' = store
              /\ wans' = [wans EXCEPT ![w] = resp]
           \/ \E resp \in PutUndecoded :
              /\ store' = StoreAfterPut(body)
              /\ wans' = [wans EXCEPT ![w] = resp]
        /\ wret' = [wret EXCEPT ![w] = save(doc, wans'[w])]
        /\ wpc' = [wpc EXCEPT ![w] = "done"]

\* lines 650-651 and 656-657: the save of upsert
UpsertSave(w) ==
    /\ wop[w] = "upsert"
    /\ wpc[w] = "save"
    /\ SavePut(w, wcur[w])
    /\ UNCHANGED <<findVars, batchVars, store0, wop, wdoc, wgot, wcur>>

\* save called by the application
SaveCall(w) ==
    /\ wop[w] = "save"
    /\ wpc[w] = "start"
    /\ SavePut(w, wdoc[w])
    /\ UNCHANGED <<findVars, batchVars, store0, wop, wdoc, wgot, wcur>>

\* create, lines 571-604, with raw_doc the JSON value of wdoc[w]
CreateCall(w) ==
    /\ wop[w] = "create"
    /\ wpc[w] = "start"
    /\ LET raw_doc == get_data(wdoc[w])
       IN  /\ wlog' = [wlog EXCEPT ![w] = Append(@, PostRequest(raw_doc))]
           /\ \/ \E resp \in PostResponses(raw_doc) :
                 /\ store' = StoreAfterPost(raw_doc)
                 /\ wans' = [wans EXCEPT ![w] = resp]
              \/ \E resp \in PutFailures \cup WriteRejections :
                 /\ store' = store
                 /\ wans' = [wans EXCEPT ![w] = resp]
              \/ \E resp \in PutUndecoded :
                 /\ store' = StoreAfterPost(raw_doc)
                 /\ wans' = [wans EXCEPT ![w] = resp]
           /\ wret' = [wret EXCEPT ![w] = create(raw_doc, wans'[w])]
    /\ wpc' = [wpc EXCEPT ![w] = "done"]
    /\ UNCHANGED <<findVars, batchVars, store0, wop, wdoc, wgot, wcur>>

\* remove, lines 791-802
RemoveCall(w) ==
    /\ wop[w] = "remove"
    /\ wpc[w] = "start"
    /\ \/ \* the request cannot be built: nothing is sent
          /\ wans' = [wans EXCEPT ![w] = [built |-> FALSE, fail |-> None, status |-> 0]]
          /\ UNCHANGED <<store, wlog>>
       \/ \* the request cannot be sent
          /\ \E e \in TransportErrors :
                wans' = [wans EXCEPT ![w] = [built |-> TRUE, fail |-> Some(e), status |-> 0]]
          /\ UNCHANGED <<store, wlog>>
       \/ \* the server serves the DELETE
          /\ wans' = [wans EXCEPT ![w] = [built |-> TRUE, fail |-> None,
                                          status |-> DeleteStatus(wdoc[w]._rev)]]
          /\ store' = StoreAfterDelete(wdoc[w]._rev)
          /\ wlog' = [wlog EXCEPT ![w] = Append(@, DeleteRequest(wdoc[w]._id, wdoc[w]._rev))]
       \/ \* another status comes back
          /\ \E st \in OtherDeleteStatuses :
                wans' = [wans EXCEPT ![w] = [built |-> TRUE, fail |-> None, status |-> st]]
          /\ store' = store
          /\ wlog' = [wlog EXCEPT ![w] = Append(@, DeleteRequest(wdoc[w]._id, wdoc[w]._rev))]
    /\ wret' = [wret EXCEPT ![w] = Bool(is_ok(wans'[w]))]
    /\ wpc' = [wpc EXCEPT ![w] = "done"]
    /\ UNCHANGED <<findVars, batchVars, store0, wop, wdoc, wgot, wcur>>

NextWrite ==
    \E w \in Writers :
        \/ UpsertGet(w)
        \/ UpsertSave(w)
        \/ SaveCall(w)
        \/ CreateCall(w)
        \/ RemoveCall(w)

SpecWrite == InitWrite /\ [][NextWrite]_vars

(***************************************************************************)
(* Claims about find_batched, checked under Spec                           *)
(***************************************************************************)
RoundUp(m, b) == ((m + b - 1) \div b) * b
SentIds == UNION {{sent[i].rows[j]._id : j \in 1..Len(sent[i].rows)} : i \in 1..Len(sent)}
Finished == pc = "done"
StagnantPage ==
    /\ all_docs.kind = "Ok"
    /\ all_docs.val.total_rows > 0
    /\ (all_docs.val.bookmark = None \/ all_docs.val.bookmark = held)

\* C1: a run with max_results = 0 against the paging server, with a consumer
\* that keeps its receiver, returns Ok and the batches sent on the channel
\* together hold all n documents of the server.
C1_AllDocumentsDelivered ==
    (Finished /\ srv.mode = "paged" /\ args.max_results = 0 /\ rxOpen)
        => /\ ret.kind = "Ok"
           /\ SentIds = {DocId(k) : k \in 1..srv.n}
           /\ SumRows(sent) = srv.n

\* C2: with max_results > 0 and a paging server that holds enough documents,
\* the run delivers the smallest multiple of the batch size >= max_results
\* (batch_size 10, max_results 15, 30 documents: 2 batches, Ok(20)).
C2_RoundedUpToBatch ==
    (/\ Finished /\ srv.mode = "paged" /\ rxOpen
     /\ args.max_results > 0
     /\ srv.n >= RoundUp(args.max_results, limit))
        => /\ ret = Ok(RoundUp(args.max_results, limit))
           /\ SumRows(sent) = RoundUp(args.max_results, limit)
           /\ Len(sent) = RoundUp(args.max_results, limit) \div limit

\* C3: a page with total_rows > 0 whose bookmark is absent or equal to the
\* bookmark held ends the run with Ok after that page's batch was delivered.
C3_StagnantPageDelivered ==
    (Finished /\ StagnantPage /\ rxOpen)
        => /\ ret.kind = "Ok"
           /\ Len(sent) = Len(requests)
           /\ sent[Len(sent)] = all_docs.val

\* C4: when find fails on page k the run ends at once with Err of exactly
\* that error; k-1 batches were sent and stay delivered, and afterwards no
\* request is issued and no batch is sent.
C4_FailureAbortsRun ==
    /\ [](all_docs.kind = "Err"
            => /\ pc = "done"
               /\ ret = Err(all_docs.err)
               /\ Len(sent) = Len(requests) - 1
               /\ (rxOpen => received \o tx = sent))
    /\ [][all_docs.kind = "Err"
            => /\ requests' = requests
               /\ sent' = sent
               /\ ret' = ret
               /\ received' \o tx' = received \o tx \/ ~rxOpen']_vars
C4_Witness ==
    /\ ret.kind = "Err"
    /\ Len(requests) = 3
    /\ Len(sent) = 2
    /\ Len(received) = 2

\* C5: the running count equals the sum of total_rows of the batches sent,
\* whenever no send is pending, and a returned Ok(n) has n equal to that sum.
C5_CountIsSumOfSent ==
    /\ pc \in {"start", "fetch", "done"} => results = SumRows(sent)
    /\ pc = "send" => results = SumRows(sent) + all_docs.val.total_rows
    /\ ret.kind = "Ok" => ret.val = SumRows(sent)
C5_Witness ==
    /\ ret.kind = "Ok"
    /\ Len(sent) = 2
    /\ sent[1].total_rows # sent[2].total_rows
    /\ ret.val = 3

(***************************************************************************)
(* Claims about find, checked under SpecFind                               *)
(***************************************************************************)
FindReturned == fOut.kind # "NotCalled"
PayloadRead == FindReturned /\ fResp.fail = None /\ fResp.parsed
ErrorOfPayload == Err(CouchError(fResp.data.error[1], fResp.status))

\* C6 as stated: whenever the payload has an error field, find fails with the
\* body's error as message and the response's HTTP status, whatever the other
\* fields of the payload are.
C6_ErrorFieldAlwaysFails ==
    (PayloadRead /\ is_some(fResp.data.error)) => fOut = ErrorOfPayload

\* C6 amended: whenever the payload has an error field and no docs field,
\* find fails with the body's error as message and the response's HTTP
\* status (a success status too); with a docs field find returns Ok.
C6_ErrorFieldFailsWithoutDocs ==
    (PayloadRead /\ is_some(fResp.data.error))
        => IF fResp.data.docs = None THEN fOut = ErrorOfPayload ELSE fOut.kind = "Ok"
C6_Witness ==
    /\ PayloadRead
    /\ fResp.status = 200
    /\ fResp.data.docs = None
    /\ is_some(fResp.data.bookmark)
    /\ fOut = Err(CouchError("bad_request", 200))

\* C7: a successful find returns no document whose id starts with '_', and
\* returns every other document of the response, in the response's order.
Reserved(id) == id # <<>> /\ Head(id) = "_"
ResponseDocs == IF is_some(fResp.data.docs) THEN fResp.data.docs[1] ELSE <<>>
C7_ReservedDocsFiltered ==
    (PayloadRead /\ fOut.kind = "Ok")
        => LET rows == fOut.val.rows
               docs == ResponseDocs
           IN  /\ \A i \in 1..Len(rows) : ~Reserved(rows[i]._id)
               /\ \E at \in [1..Len(rows) -> 1..Len(docs)] :
                    /\ \A i \in 1..Len(rows) : rows[i].doc = docs[at[i]]
                    /\ \A i, j \in 1..Len(rows) : i < j => at[i] < at[j]
                    /\ \A k \in 1..Len(docs) :
                         ~Reserved(docs[k]._id) => \E i \in 1..Len(rows) : at[i] = k
C7_Witness ==
    /\ PayloadRead /\ fOut.kind = "Ok"
    /\ Len(ResponseDocs) = 3
    /\ ResponseDocs[1]._id = <<"b">>
    /\ ResponseDocs[2]._id = <<"_", "d">>
    /\ ResponseDocs[3]._id = <<"a">>
    /\ Len(fOut.val.rows) = 2

\* C8 as stated: the batch of a successful find has no bookmark when the
\* response's bookmark is missing, "" or "nil", and has the response's
\* bookmark verbatim otherwise.
NoContinuation == {None, Some(""), Some("nil")}
C8_BookmarkNormalized ==
    (PayloadRead /\ fOut.kind = "Ok")
        => IF fResp.data.bookmark \in NoContinuation
           THEN fOut.val.bookmark = None
           ELSE fOut.val.bookmark = fResp.data.bookmark

\* C8 amended: the same, for a response that carries a docs field.
C8_BookmarkNormalizedWithDocs ==
    (PayloadRead /\ fOut.kind = "Ok" /\ is_some(fResp.data.docs))
        => IF fResp.data.bookmark \in NoContinuation
           THEN fOut.val.bookmark = None
           ELSE fOut.val.bookmark = fResp.data.bookmark
C8_Witness ==
    /\ PayloadRead /\ fOut.kind = "Ok"
    /\ fResp.data.bookmark = Some("nil")
    /\ fOut.val.total_rows = 2
    /\ fOut.val.bookmark = None

\* C23 as stated: a response with no error field whose docs field is empty,
\* be it absent or an empty list, yields Ok with an empty batch of
\* total_rows = 0 that carries no bookmark, whatever bookmark the response
\* has.
EmptyBatchWithoutBookmark ==
    /\ fOut.kind = "Ok"
    /\ fOut.val.rows = <<>>
    /\ fOut.val.total_rows = 0
    /\ fOut.val.bookmark = None
C23_EmptyDocsYieldBareBatch ==
    (PayloadRead /\ fResp.data.docs \in {None, Some(<<>>)} /\ fResp.data.error = None)
        => EmptyBatchWithoutBookmark

\* C23 amended: the same, for a response whose docs field is absent.
C23_AbsentDocsYieldBareBatch ==
    (PayloadRead /\ fResp.data.docs = None /\ fResp.data.error = None)
        => EmptyBatchWithoutBookmark
C23_Witness ==
    /\ PayloadRead
    /\ fResp.data.docs = None /\ fResp.data.error = None
    /\ fResp.data.bookmark = Some("b1")
    /\ EmptyBatchWithoutBookmark

(***************************************************************************)
(* Claims about upsert, checked under SpecWrite                            *)
(***************************************************************************)
Puts(w) == SelectSeq(wlog[w], LAMBDA r : r.method = "PUT")
Gets(w) == SelectSeq(wlog[w], LAMBDA r : r.method = "GET")
GetFailedOtherwise(g) == g.kind = "Err" /\ g.err.status # 404
GetNotFound(g) == g.kind = "Err" /\ g.err.status = 404

\* C9: upsert issues exactly one get, of doc's id, first; after a get that
\* succeeded it issues exactly one save, of merge(current, incoming), and a
\* successful result carries a revision other than the one the get returned;
\* after a get that failed with NotFound it issues exactly one save, of the
\* incoming document; it never issues more than one write.
C9_UpsertBranches ==
    \A w \in {u \in Writers : wop[u] = "upsert"} :
        /\ wpc[w] # "start" => /\ Len(Gets(w)) = 1
                               /\ wlog[w][1] = GetRequest(wdoc[w]._id)
        /\ Len(Puts(w)) <= 1
        /\ (wpc[w] = "done" /\ wgot[w].kind = "Ok")
              => /\ Puts(w) = <<PutRequest(wdoc[w]._id,
                                          get_data(merge(wgot[w].val, get_data(wdoc[w]))))>>
                 /\ wret[w].kind = "Ok" => wret[w].val._rev # wgot[w].val._rev
        /\ (wpc[w] = "done" /\ GetNotFound(wgot[w]))
              => Puts(w) = <<PutRequest(wdoc[w]._id, get_data(wdoc[w]))>>
C9_Witness ==
    /\ GetNotFound(wgot["w2"]) /\ wret["w2"].kind = "Ok"
    /\ wgot["w1"].kind = "Ok" /\ wret["w1"].kind = "Ok"
    /\ wret["w1"].val.doc.f = [x |-> Some("w1"), y |-> Some("w2")]

\* C10: when upsert's get fails with an error other than NotFound, upsert
\* returns that error, issues no save, and the step leaves the stored
\* document as it was.
C10_OtherGetErrorAborts ==
    /\ [](\A w \in Writers :
            GetFailedOtherwise(wgot[w])
                => /\ wpc[w] = "done"
                   /\ wret[w] = Err(wgot[w].err)
                   /\ Puts(w) = <<>>)
    /\ [][\A w \in Writers :
            GetFailedOtherwise(wgot'[w])
                => /\ wgot[w] # wgot'[w] => store' = store
                   /\ wgot[w] = wgot'[w] => wlog'[w] = wlog[w] /\ wret'[w] = wret[w]]_vars
C10_Witness ==
    /\ wgot["w1"] = Err(StatusError(500))
    /\ wret["w1"] = Err(StatusError(500))
    /\ store.live
    /\ wpc["w2"] = "done"

(***************************************************************************)
(* Claims about save, checked under SpecWrite                              *)
(***************************************************************************)
Saved(w) == wop[w] = "save" /\ wpc[w] = "done"
Answered(w) == wans[w] # NotCalled /\ wans[w].fail = None
AnsweredOk(w) == Answered(w) /\ wans[w].data.ok = Some(TRUE)

\* C11: on a save the server answers with ok = true, the returned document
\* is the submitted one with the server's revision in place of its own: id
\* and fields as submitted; the only request of the save is its PUT.
C11_SaveStampsRevision ==
    \A w \in Writers :
        (Saved(w) /\ AnsweredOk(w))
            => /\ wret[w].kind = "Ok"
               /\ wret[w].val._id = wdoc[w]._id
               /\ wret[w].val.doc._id = wdoc[w].doc._id
               /\ wret[w].val.doc.f = wdoc[w].doc.f
               /\ wret[w].val.doc._rev = wans[w].data.rev
               /\ wret[w].val._rev = wans[w].data.rev[1]
               /\ wlog[w] = <<PutRequest(wdoc[w]._id, wdoc[w].doc)>>
C11_Witness ==
    /\ Saved("w1") /\ AnsweredOk("w1")
    /\ wdoc["w1"]._rev = "1"
    /\ wdoc["w1"].doc.f = [x |-> Some("w1"), y |-> None]
    /\ wret["w1"].val._rev = "2"

\* C12: when the server's answer to a save does not have ok = true, save
\* returns an error with the HTTP status of that answer and the server's
\* error string as message ("unspecified error" when the answer has none),
\* and no document.
C12_SaveFailureSurfaces ==
    \A w \in Writers :
        (Saved(w) /\ Answered(w) /\ ~AnsweredOk(w))
            => /\ wret[w].kind = "Err"
               /\ wret[w].err.status = wans[w].status
               /\ is_some(wans[w].data.error)
                     => wret[w].err.message = wans[w].data.error[1]
               /\ ~is_some(wans[w].data.error)
                     => wret[w].err.message = "unspecified error"
C12_Witness ==
    /\ Saved("w1")
    /\ store0.live /\ store0.rev = 2
    /\ wdoc["w1"]._rev = "1"
    /\ wans["w1"].status = 409
    /\ wret["w1"] = Err(CouchError("conflict", 409))

\* C14: two callers save documents of the same id, both based on the
\* revision the server holds (both without a revision when the document does
\* not exist yet), and the server answers both: exactly one save returns Ok,
\* the other returns the server's conflict as an error; each save issued
\* exactly one PUT, and the server holds the winner's document.
RacingSaves ==
    /\ \A w \in Writers : Saved(w) /\ Answered(w) /\ wans[w].status \in {201, 409}
    /\ \A w \in Writers :
          wdoc[w].doc._rev = IF store0.live THEN RevOf(store0.rev) ELSE None
C14_OneSaveWins ==
    RacingSaves
        => \E win \in Writers :
             /\ wret[win].kind = "Ok"
             /\ store.live
             /\ store.f = wdoc[win].doc.f
             /\ RevOf(store.rev) = wret[win].val.doc._rev
             /\ \A w \in Writers :
                  /\ Len(wlog[w]) = 1
                  /\ w # win => wret[w] = Err(CouchError("conflict", 409))
C14_Witness ==
    /\ RacingSaves
    /\ store0.live
    /\ wret["w2"].kind = "Ok"
    /\ wret["w1"].kind = "Err"

\* C24: when two upserts of the same id have both read the document before
\* either wrote it, so that both saw the same revision or both saw NotFound,
\* at most one of them returns Ok and the other returns an error; each issued
\* one GET and at most one PUT, and the server holds the document of the one
\* that returned Ok.
SawRevision(w) == wgot[w].kind = "Ok"
SawNotFound(w) == wgot[w].kind = "Err" /\ wgot[w].err.status = 404
SameView ==
    /\ \A w \in Writers : wop[w] = "upsert"
    /\ \/ /\ \A w \in Writers : SawRevision(w)
          /\ wgot["w1"].val._rev = wgot["w2"].val._rev
       \/ \A w \in Writers : SawNotFound(w)
C24_NoLostUpdate ==
    SameView
        => /\ ~(\A w \in Writers : wret[w].kind = "Ok")
           /\ \A w \in Writers :
                /\ Len(Gets(w)) = 1
                /\ Len(Puts(w)) <= 1
                /\ Len(wlog[w]) <= 2
                /\ wret[w].kind = "Ok"
                     => /\ store.live
                        /\ store.f = wcur[w].doc.f
                        /\ RevOf(store.rev) = wret[w].val.doc._rev
                        /\ \A o \in Writers \ {w} :
                             wpc[o] = "done" => wret[o].kind = "Err"
C24_Witness ==
    /\ SameView
    /\ store0.live
    /\ \A w \in Writers : wpc[w] = "done" /\ SawRevision(w)
    /\ wret["w1"].kind = "Ok"
    /\ wret["w2"] = Err(CouchError("conflict", 409))
    /\ store.f = wcur["w1"].doc.f
    /\ wcur["w2"].doc.f # store.f

(***************************************************************************)
(* Further claims about find_batched, checked under Spec                   *)
(***************************************************************************)
SendOnClosed == pc = "send" /\ ~rxOpen

\* C16: when find_batched is about to send a batch and the receiver is gone,
\* the only step of the run is the panic of the task: no value is returned,
\* neither Ok(count) nor Err, and no further find request is issued, then or
\* later.
C16_SendOnClosedPanics ==
    /\ [](pc = "panicked" => ret = NotCalled)
    /\ [][SendOnClosed
            => /\ pc' = "panicked"
               /\ ret' = NotCalled
               /\ requests' = requests
               /\ sent' = sent]_vars
    /\ [][pc = "panicked"
            => /\ pc' = "panicked"
               /\ requests' = requests
               /\ sent' = sent]_vars
C16_Witness ==
    /\ pc = "panicked"
    /\ ~rxOpen
    /\ all_docs.kind = "Ok"
    /\ Len(requests) = 2
    /\ Len(sent) = 1

\* C18: every page request of a run carries as limit batch_size when
\* batch_size > 0 and 1000 when batch_size = 0, whatever limit the caller's
\* query has.
C18_LimitIsBatchSize ==
    \A i \in 1..Len(requests) :
        requests[i].limit = Some(IF args.batch_size = 0 THEN 1000 ELSE args.batch_size)
C18_Witness ==
    /\ args.batch_size = 0
    /\ args.query.limit = Some(5)
    /\ Len(requests) = 2
    /\ requests[1].limit = Some(1000)
    /\ requests[2].limit = Some(1000)

\* C19: the first request of a run carries no bookmark, every later request
\* carries the bookmark of the batch sent before it, and the limit is the
\* same on every request.
C19_BookmarkSubmitted ==
    \A i \in 1..Len(requests) :
        /\ requests[i].bookmark = IF i = 1 THEN None ELSE sent[i - 1].bookmark
        /\ requests[i].limit = requests[1].limit

\* C20: a page with total_rows = 0 ends the run with Ok of the count so far;
\* the page is not sent and no find follows, also when the page carries a
\* bookmark different from the one held.
EmptyPage == all_docs.kind = "Ok" /\ all_docs.val.total_rows = 0
C20_EmptyPageEndsRun ==
    /\ [](EmptyPage
            => /\ pc = "done"
               /\ ret = Ok(results)
               /\ results = SumRows(sent)
               /\ Len(sent) = Len(requests) - 1)
    /\ [][EmptyPage => requests' = requests /\ sent' = sent /\ ret' = ret]_vars
C20_Witness ==
    /\ EmptyPage
    /\ is_some(all_docs.val.bookmark)
    /\ all_docs.val.bookmark # held
    /\ Len(sent) = 1
    /\ ret = Ok(results)
    /\ results > 0

\* C21: the channel never holds more than its capacity of batches; while it
\* is full and the producer stands in send, the producer neither sends nor
\* issues a find until the consumer has taken a batch; a find is issued only
\* when every page fetched before it has been sent.
SuspendedInSend == pc = "send" /\ rxOpen /\ Len(tx) = ChanCap
C21_Backpressure ==
    /\ [](Len(tx) <= ChanCap)
    /\ [][SuspendedInSend
            => /\ requests' = requests
               /\ sent' = sent
               /\ pc' = pc
               /\ ret' = ret]_vars
    /\ [][requests' # requests
            => /\ Len(sent) = Len(requests)
               /\ Len(requests') = Len(requests) + 1
               /\ sent' = sent]_vars
C21_Witness ==
    /\ SuspendedInSend
    /\ Len(sent) = 2
    /\ Len(requests) = 3
    /\ Len(received) = 1

\* C22: in a run with max_results = 0 that returned Ok, the bookmarks of the
\* pages before the terminal one, which are the bookmarks the iterator held
\* in turn, are pairwise distinct, whatever the server answered.
C22_BookmarksPairwiseDistinct ==
    (Finished /\ ret.kind = "Ok" /\ args.max_results = 0)
        => \A i, j \in 1..Len(sent) :
              i # j => sent[i].bookmark # sent[j].bookmark

\* C26: every batch sent has total_rows > 0 and a bookmark that is present
\* and differs from the one the iterator held when the page was fetched; a
\* page that fails either condition is not sent.
C26_SentBatchesAdvance ==
    /\ [](\A i \in 1..Len(sent) :
            /\ sent[i].total_rows > 0
            /\ is_some(sent[i].bookmark)
            /\ sent[i].bookmark # IF i = 1 THEN None ELSE sent[i - 1].bookmark)
    /\ []((EmptyPage \/ StagnantPage) => Len(sent) = Len(requests) - 1)
    /\ [][sent' # sent
            => /\ sent' = Append(sent, all_docs.val)
               /\ all_docs.val.total_rows > 0
               /\ is_some(all_docs.val.bookmark)
               /\ all_docs.val.bookmark # held]_vars
C26_Witness ==
    /\ Finished
    /\ StagnantPage
    /\ Len(requests) = 3
    /\ Len(sent) = 2
    /\ sent[1].bookmark # sent[2].bookmark

(***************************************************************************)
(* Termination of find_batched, checked under SpecLive                     *)
(***************************************************************************)
Terminated == pc = "done" \/ pc = "panicked"

\* C25: a run with max_results > 0 whose requests are all answered and whose
\* batches are all received comes to an end, whatever the answers are; it
\* sends at most max_results batches, each sent batch having added at least
\* 1 to the count, and it is never the bound on the number of pages that
\* ends it.
C25_BoundedRunTerminates ==
    /\ [](args.max_results > 0
            => /\ Len(sent) <= args.max_results
               /\ results >= Len(sent)
               /\ (pc = "fetch" => Len(requests) < MaxPages)
               /\ (pc = "done" => ret # NotCalled))
    /\ (args.max_results > 0) ~> Terminated
C25_Witness ==
    /\ Finished
    /\ args.max_results = 3
    /\ Len(sent) = 3
    /\ received = sent
    /\ sent[1].bookmark = sent[3].bookmark
    /\ ret = Ok(3)

(***************************************************************************)
(* Failures of find, checked under SpecFind                                *)
(***************************************************************************)
\* C17: when the request of find cannot be sent or the body of the response
\* cannot be deserialized, find returns an error value to its caller.
C17_FailureIsReturned ==
    (FindReturned /\ (is_some(fResp.fail) \/ ~fResp.parsed))
        => fOut.kind = "Err"

(***************************************************************************)
(* Claims about create and remove, checked under SpecWrite                 *)
(***************************************************************************)
Created(w) == wop[w] = "create" /\ wpc[w] = "done"
Removed(w) == wop[w] = "remove" /\ wpc[w] = "done"

\* C13: create fails with an error when the server answers ok = true without
\* the id or without the revision; with both, it returns the submitted JSON
\* with id and revision set to the server's and the other fields unchanged;
\* when ok is not true it fails with the server's error string and the HTTP
\* status.
C13_CreateChecksAnswer ==
    \A w \in Writers :
        (Created(w) /\ Answered(w))
            => LET a == wans[w].data
               IN  /\ (a.ok = Some(TRUE) /\ (a.id = None \/ a.rev = None))
                         => wret[w].kind = "Err"
                   /\ (a.ok = Some(TRUE) /\ a.id # None /\ a.rev # None)
                         => /\ wret[w].kind = "Ok"
                            /\ wret[w].val.doc._id = a.id[1]
                            /\ wret[w].val.doc._rev = a.rev
                            /\ wret[w].val.doc.f = wdoc[w].doc.f
                            /\ wret[w].val._id = a.id[1]
                            /\ wret[w].val._rev = a.rev[1]
                   /\ a.ok # Some(TRUE)
                         => /\ wret[w].kind = "Err"
                            /\ wret[w].err.status = wans[w].status
                            /\ wret[w].err.message =
                                  IF is_some(a.error) THEN a.error[1] ELSE "unspecified error"
C13_Witness ==
    /\ Created("w1") /\ Answered("w1")
    /\ wans["w1"].data.ok = Some(TRUE)
    /\ wans["w1"].data.id = Some(GeneratedId)
    /\ wans["w1"].data.rev = None
    /\ wret["w1"] = Err(CouchError("invalid rev", 201))

\* C15: remove returns true exactly when the DELETE was built and sent and
\* the status of its response is 200 or 304; in every other case it returns
\* false; it always returns a bool.
C15_RemoveCollapsesToBool ==
    \A w \in Writers :
        Removed(w)
            => /\ wret[w].kind = "Bool"
               /\ wret[w].val = (/\ wans[w].built
                                 /\ wans[w].fail = None
                                 /\ wans[w].status \in {200, 304})
C15_Witness ==
    /\ Removed("w1")
    /\ store0.live /\ ~store.live
    /\ wans["w1"].status = 200
    /\ wret["w1"] = Bool(TRUE)

====
